---- MODULE Spec2Model ----
(***************************************************************************)
(* The coordinate-list (COO) sparse tensor operations that the notebook    *)
(* L4_Sparse_tensor.ipynb calls, and the notebook's cells as a session.    *)
(*                                                                         *)
(* Values.  Every value of the session is a record with a field `kind`:    *)
(*   sparse : [kind, shape, indices, values]   a SparseTensor              *)
(*   dense  : [kind, shape, at]                a dense array, `at` maps    *)
(*                                             each cell to its element    *)
(*   error  : [kind, err]                      a failed call               *)
(*   none   : [kind]                           not assigned yet            *)
(* Coordinates are 0-based tuples, as in the notebook.                     *)
(***************************************************************************)
EXTENDS Integers, Sequences, FiniteSets, TLC

VARIABLES
    a,      \* first operand held by the session (a SparseTensor, or None)
    b,      \* second operand (a SparseTensor, or None)
    op,     \* the operation the session ran last ("none" before any)
    arg,    \* that operation's arguments
    res,    \* that operation's result
    nb      \* the notebook's variables: name -> value (None while unassigned)

vars == <<a, b, op, arg, res, nb>>

(***************************************************************************)
(* Bounds of the model.                                                    *)
(***************************************************************************)
MaxNnz == 2          \* stored entries a session holds, over both operands

Vals == {-2, -1, 0, 1}            \* the scalars a tensor stores
Shapes == {<<2, 2>>, <<2, 1>>}    \* the dense shapes of the operands
Coords == {<<0, 0>>, <<0, 1>>, <<1, 0>>}   \* the coordinates passed to construct
Starts == {-1, 0, 1}              \* the components of a slice's start
Sizes == {-1, 0, 1, 2}            \* the components of a slice's size
Taus == {0, 1}                    \* the elision thresholds of add
Ops == {"max", "sum"}             \* the reduction operators
DVals == {-1, 2}                  \* the elements of a dense matrix
DenseShapes == {<<1, 1>>, <<1, 2>>, <<2, 1>>, <<2, 2>>}   \* the shapes of a dense matrix

(***************************************************************************)
(* Values                                                                  *)
(***************************************************************************)
None == [kind |-> "none"]
Err(e) == [kind |-> "error", err |-> e]
Sparse(shape, indices, values) ==
    [kind |-> "sparse", shape |-> shape, indices |-> indices, values |-> values]
Dense(shape, at) == [kind |-> "dense", shape |-> shape, at |-> at]

IsSparse(v) == v.kind = "sparse"
IsDense(v) == v.kind = "dense"
IsErr(v) == v.kind = "error"

Abs(x) == IF x < 0 THEN -x ELSE x
Min(x, y) == IF x < y THEN x ELSE y
Max(x, y) == IF x < y THEN y ELSE x

RECURSIVE SeqSum(_)
SeqSum(s) == IF s = <<>> THEN 0 ELSE Head(s) + SeqSum(Tail(s))

RECURSIVE Flatten(_)
Flatten(ss) == IF ss = <<>> THEN <<>> ELSE Head(ss) \o Flatten(Tail(ss))

(***************************************************************************)
(* Coordinate model: canonical (row-major) order, axis 0 most significant. *)
(***************************************************************************)
LexLess(c, d) ==
    \E k \in 1..Len(c) :
        /\ c[k] < d[k]
        /\ \A j \in 1..(k - 1) : c[j] = d[j]

\* -1, 0, 1 as c is before, equal to, after d
Cmp(c, d) == IF LexLess(c, d) THEN -1 ELSE IF c = d THEN 0 ELSE 1

InShape(c, shape) ==
    /\ Len(c) = Len(shape)
    /\ \A k \in 1..Len(shape) : 0 <= c[k] /\ c[k] < shape[k]

\* the cells of a dense array of this shape, in row-major order
RECURSIVE RowMajor(_)
RowMajor(shape) ==
    IF shape = <<>> THEN << <<>> >>
    ELSE LET rest == RowMajor(Tail(shape))
         IN Flatten([i \in 1..shape[1] |->
                       [j \in 1..Len(rest) |-> <<i - 1>> \o rest[j]]])

Cells(shape) == LET rm == RowMajor(shape) IN {rm[i] : i \in 1..Len(rm)}

Nnz(t) == Len(t.indices)
Entries(t) == [i \in 1..Nnz(t) |-> <<t.indices[i], t.values[i]>>]
FromEntries(shape, es) ==
    Sparse(shape, [i \in 1..Len(es) |-> es[i][1]], [i \in 1..Len(es) |-> es[i][2]])

IsCanonical(t) ==
    \A i \in 1..(Nnz(t) - 1) : LexLess(t.indices[i], t.indices[i + 1])

AllInShape(t) == \A i \in 1..Nnz(t) : InShape(t.indices[i], t.shape)

(***************************************************************************)
(* construct: tf.sparse.SparseTensor(indices, values, dense_shape).        *)
(* The notebook builds st_b with the coordinate [7, 0] in a tensor of      *)
(* dense_shape [4, 10] and the call succeeds: the three components are     *)
(* stored as given, no coordinate is compared with the shape.              *)
(***************************************************************************)
construct_checked(shape, indices, values) ==
    IF \E i \in 1..Len(indices) : ~InShape(indices[i], shape)
    THEN Err("IndexOutOfBoundsError")
    ELSE Sparse(shape, indices, values)

construct(shape, indices, values) ==
    Sparse(shape, indices, values)

(***************************************************************************)
(* canonicalize (section 4.2): sort the entries into canonical order, then *)
(* one merge pass that sums the values of equal coordinates.  The notebook *)
(* names tf.sparse.reorder in prose only and never calls a canonicalizer.  *)
(***************************************************************************)
\* e goes after every entry of the sorted s that is not after it (stable)
RECURSIVE InsertSorted(_, _)
InsertSorted(e, s) ==
    IF s = <<>> THEN <<e>>
    ELSE IF LexLess(e[1], Head(s)[1]) THEN <<e>> \o s
    ELSE <<Head(s)>> \o InsertSorted(e, Tail(s))

RECURSIVE SortEntries(_)
SortEntries(es) ==
    IF es = <<>> THEN <<>>
    ELSE InsertSorted(es[Len(es)], SortEntries(SubSeq(es, 1, Len(es) - 1)))

MergeDups_keep(es) == es

\* es sorted: adjacent entries with one coordinate become one entry, summed
RECURSIVE MergeDups(_)
MergeDups(es) ==
    IF Len(es) < 2 THEN es
    ELSE IF es[1][1] = es[2][1]
         THEN MergeDups(<< <<es[1][1], es[1][2] + es[2][2]>> >> \o SubSeq(es, 3, Len(es)))
         ELSE <<es[1]>> \o MergeDups(Tail(es))

\* a canonical form that drops the entries whose merged value is 0
canonicalize_dropzero(t) ==
    FromEntries(t.shape, SelectSeq(MergeDups(SortEntries(Entries(t))), LAMBDA e : e[2] # 0))

canonicalize(t) == FromEntries(t.shape, MergeDups(SortEntries(Entries(t))))

(***************************************************************************)
(* Dense bridge: tf.sparse.to_dense and tf.sparse.from_dense.              *)
(***************************************************************************)
Zeros(shape) == [c \in Cells(shape) |-> 0]

\* write each (coordinate, value) pair into the array, in order
RECURSIVE Scatter(_, _)
Scatter(at, es) ==
    IF es = <<>> THEN at
    ELSE Scatter([at EXCEPT ![Head(es)[1]] = Head(es)[2]], Tail(es))

\* an array of t's shape, zero but for the stored entries; the tensor is
\* canonicalized first (section 4.3), so repeated coordinates show their sum.
\* A coordinate outside the shape has no cell to be written to.
to_dense(t) ==
    LET c == canonicalize(t)
    IN IF ~AllInShape(c) THEN Err("IndexOutOfBoundsError")
       ELSE Dense(t.shape, Scatter(Zeros(t.shape), Entries(c)))

from_dense_all(d) ==
    LET cells == RowMajor(d.shape)
    IN Sparse(d.shape, cells, [i \in 1..Len(cells) |-> d.at[cells[i]]])

\* scan the array in row-major order, one entry per element that is not 0
from_dense(d) ==
    LET cells == SelectSeq(RowMajor(d.shape), LAMBDA c : d.at[c] # 0)
    IN Sparse(d.shape, cells, [i \in 1..Len(cells) |-> d.at[cells[i]]])

\* the dense literals of the notebook: a list, and a list of rows
DenseOfList(xs) == Dense(<<Len(xs)>>, [c \in Cells(<<Len(xs)>>) |-> xs[c[1] + 1]])
DenseOfRows(rows) ==
    LET shape == <<Len(rows), Len(rows[1])>>
    IN Dense(shape, [c \in Cells(shape) |-> rows[c[1] + 1][c[2] + 1]])

(***************************************************************************)
(* Elementwise engine: tf.sparse.map_values and tf.sparse.add.             *)
(***************************************************************************)
\* the elementwise functions a session maps over a tensor
MapFns == {"plus5", "negate", "square"}
ElementFn(name) ==
    CASE name = "plus5" -> [v \in Int |-> v + 5]
      [] name = "negate" -> [v \in Int |-> 0 - v]
      [] name = "square" -> [v \in Int |-> v * v]

\* a map over the dense view: f(0) is stored at every missing cell as well
map_values_dense(f, t) ==
    LET missing == SelectSeq(RowMajor(t.shape),
                             LAMBDA c : \A i \in 1..Nnz(t) : t.indices[i] # c)
    IN Sparse(t.shape, t.indices \o missing,
              [i \in 1..Nnz(t) |-> f[t.values[i]]] \o [i \in 1..Len(missing) |-> f[0]])

\* f is the elementwise function, given as a function on the stored values
map_values(f, t) ==
    Sparse(t.shape, t.indices, [i \in 1..Nnz(t) |-> f[t.values[i]]])

RECURSIVE MergeWalk_first(_, _)
MergeWalk_first(x, y) ==
    IF x = <<>> THEN y
    ELSE IF y = <<>> THEN x
    ELSE LET k == Cmp(Head(x)[1], Head(y)[1])
         IN IF k = -1 THEN <<Head(x)>> \o MergeWalk_first(Tail(x), y)
            ELSE IF k = 1 THEN <<Head(y)>> \o MergeWalk_first(x, Tail(y))
            ELSE <<Head(x)>> \o MergeWalk_first(Tail(x), Tail(y))

\* merge-style walk over two sorted entry lists: a coordinate of one list is
\* carried through, a coordinate of both gets the sum of the two values
RECURSIVE MergeWalk(_, _)
MergeWalk(x, y) ==
    IF x = <<>> THEN y
    ELSE IF y = <<>> THEN x
    ELSE LET k == Cmp(Head(x)[1], Head(y)[1])
         IN IF k = -1 THEN <<Head(x)>> \o MergeWalk(Tail(x), y)
            ELSE IF k = 1 THEN <<Head(y)>> \o MergeWalk(x, Tail(y))
            ELSE << <<Head(x)[1], Head(x)[2] + Head(y)[2]>> >>
                     \o MergeWalk(Tail(x), Tail(y))

\* the elision threshold tau (section 4.4): a result of magnitude <= tau is
\* not stored
Elide_keep(es, tau) == SelectSeq(es, LAMBDA e : Abs(e[2]) >= tau)

Elide(es, tau) == SelectSeq(es, LAMBDA e : Abs(e[2]) > tau)

add(x, y, tau) ==
    IF x.shape # y.shape THEN Err("ShapeMismatchError")
    ELSE FromEntries(x.shape,
             Elide(MergeWalk(Entries(canonicalize(x)), Entries(canonicalize(y))), tau))

(***************************************************************************)
(* Matmul engine: tf.sparse.sparse_dense_matmul(s, d), s of shape [m, k]   *)
(* and d a dense [k, p] matrix.                                            *)
(***************************************************************************)
\* accumulate v * d[j, :] into row i of the output, entry by entry
RECURSIVE Accumulate(_, _, _)
Accumulate(out, es, d) ==
    IF es = <<>> THEN out
    ELSE LET i == Head(es)[1][1]
             j == Head(es)[1][2]
             v == Head(es)[2]
         IN Accumulate([c \in DOMAIN out |->
                           IF c[1] = i THEN out[c] + v * d.at[<<j, c[2]>>] ELSE out[c]],
                       Tail(es), d)

\* an entry outside s's shape names a row of d, or of the output, that does
\* not exist: the multiplication is refused
sparse_dense_matmul(s, d) ==
    IF s.shape[2] # d.shape[1] THEN Err("DimensionMismatchError")
    ELSE IF ~AllInShape(s) THEN Err("IndexOutOfBoundsError")
    ELSE LET shape == <<s.shape[1], d.shape[2]>>
         IN Dense(shape, Accumulate(Zeros(shape), Entries(canonicalize(s)), d))

(***************************************************************************)
(* Shape algebra: tf.sparse.concat(axis, sp_inputs).  Axes are 0-based.    *)
(***************************************************************************)
\* an offset that counts the inputs before, not their sizes
Offset_count(axis, inputs, n) == n

\* the sizes on `axis` of the first n inputs, summed
RECURSIVE Offset(_, _, _)
Offset(axis, inputs, n) ==
    IF n = 0 THEN 0 ELSE Offset(axis, inputs, n - 1) + inputs[n].shape[axis + 1]

Shift(c, axis, by) == [c EXCEPT ![axis + 1] = @ + by]

ConcatAccepts(axis, inputs) ==
    /\ Len(inputs) > 0
    /\ \A i \in 1..Len(inputs) :
          /\ Len(inputs[i].shape) = Len(inputs[1].shape)
          /\ \A k \in 1..Len(inputs[1].shape) :
                k # axis + 1 => inputs[i].shape[k] = inputs[1].shape[k]

concat(axis, inputs) ==
    IF Len(inputs) > 0 /\ ~(axis \in 0..(Len(inputs[1].shape) - 1))
    THEN Err("AxisOutOfRangeError")
    ELSE IF ~ConcatAccepts(axis, inputs) THEN Err("ShapeMismatchError")
    ELSE FromEntries(
             [inputs[1].shape EXCEPT ![axis + 1] = Offset(axis, inputs, Len(inputs))],
             Flatten([i \in 1..Len(inputs) |->
                        [j \in 1..Nnz(inputs[i]) |->
                            <<Shift(inputs[i].indices[j], axis, Offset(axis, inputs, i - 1)),
                              inputs[i].values[j]>>]]))

(***************************************************************************)
(* Shape algebra: tf.sparse.slice(t, start, size).  The notebook slices    *)
(* sparse_pattern_B, of dense_shape [8, 6], with start [0, 5] and size     *)
(* [8, 6] and gets a tensor of shape (8, 1); sparse_pattern_C with start   *)
(* [0, 10] gives shape (8, 0): the window is clipped to the tensor.        *)
(***************************************************************************)
\* the window's extent on one axis, clipped to the dimension
Clip_none(dim, start, size) == size

Clip(dim, start, size) ==
    IF start + size < dim THEN size
    ELSE IF start < dim THEN dim - start
    ELSE 0

InWindow_inclusive(c, start, size) ==
    \A k \in 1..Len(c) : start[k] <= c[k] /\ c[k] <= start[k] + size[k]

InWindow(c, start, size) ==
    \A k \in 1..Len(c) : start[k] <= c[k] /\ c[k] < start[k] + size[k]

\* a negative component of start or size is refused (section 4.7)
SliceRefuses(t, start, size) ==
    \E k \in 1..Len(t.shape) : start[k] < 0 \/ size[k] < 0

slice(t, start, size) ==
    IF SliceRefuses(t, start, size) THEN Err("IndexOutOfBoundsError")
    ELSE LET kept == SelectSeq(Entries(t), LAMBDA e : InWindow(e[1], start, size))
         IN FromEntries(
                [k \in 1..Len(t.shape) |-> Clip(t.shape[k], start[k], size[k])],
                [i \in 1..Len(kept) |->
                    <<[k \in 1..Len(t.shape) |-> kept[i][1][k] - start[k]], kept[i][2]>>])

(***************************************************************************)
(* Reducer: tf.sparse.reduce_max and its kin.  reduce(t, axis, op) reduces *)
(* the 0-based `axis` away; each cell of the output is one reduced region. *)
(***************************************************************************)
RemoveAt(c, axis) == SubSeq(c, 1, axis) \o SubSeq(c, axis + 2, Len(c))

Combine(o, x, y) == IF o = "max" THEN Max(x, y) ELSE x + y

\* combine(acc, value) over the values, no identity injected (section 9)
RECURSIVE Fold(_, _, _)
Fold(o, acc, vs) ==
    IF vs = <<>> THEN acc ELSE Fold(o, Combine(o, acc, Head(vs)), Tail(vs))

\* the stored values of region r, in stored order
RegionValues(t, axis, r) ==
    LET es == SelectSeq(Entries(t), LAMBDA e : RemoveAt(e[1], axis) = r)
    IN [i \in 1..Len(es) |-> es[i][2]]

reduce_region_zero(o, vs) == Fold(o, 0, vs)

\* the stored values of one region combined; vs is not empty
reduce_region(o, vs) == Fold(o, Head(vs), Tail(vs))

\* one result per region that holds a stored entry
reduce_regions(t, axis, o) ==
    [r \in {RemoveAt(t.indices[i], axis) : i \in 1..Nnz(t)} \cap Cells(RemoveAt(t.shape, axis))
        |-> reduce_region(o, RegionValues(t, axis, r))]

reduce_fill(t, axis, o) ==
    LET regs == reduce_regions(t, axis, o)
    IN Dense(RemoveAt(t.shape, axis),
             [r \in Cells(RemoveAt(t.shape, axis)) |->
                 IF r \in DOMAIN regs THEN regs[r] ELSE 0])

\* a region with no stored entry has nothing to combine (section 4.8)
reduce(t, axis, o) ==
    LET regs == reduce_regions(t, axis, o)
    IN IF DOMAIN regs # Cells(RemoveAt(t.shape, axis)) THEN Err("EmptyReductionError")
       ELSE Dense(RemoveAt(t.shape, axis), regs)

(***************************************************************************)
(* Rendering: pprint_sparse_tensor(st), the text the notebook prints for a *)
(* sparse tensor.                                                          *)
(***************************************************************************)
Text(s) == [kind |-> "text", text |-> s]

Digit(n) == <<"0", "1", "2", "3", "4", "5", "6", "7", "8", "9">>[n + 1]

RECURSIVE NatStr(_)
NatStr(n) == IF n < 10 THEN Digit(n) ELSE NatStr(n \div 10) \o Digit(n % 10)

\* str of a Python int
IntStr(n) == IF n < 0 THEN "-" \o NatStr(0 - n) ELSE NatStr(n)

\* str of a Python list of ints: [0, 3]
RECURSIVE ItemsStr(_)
ItemsStr(xs) ==
    IF xs = <<>> THEN ""
    ELSE IF Len(xs) = 1 THEN IntStr(xs[1])
    ELSE IntStr(xs[1]) \o ", " \o ItemsStr(Tail(xs))

ListStr(xs) == "[" \o ItemsStr(xs) \o "]"

\* the loop over zip(st.indices, st.values)
RECURSIVE PairLines(_)
PairLines(es) ==
    IF es = <<>> THEN ""
    ELSE "\n  " \o ListStr(es[1][1]) \o ": " \o IntStr(es[1][2]) \o PairLines(Tail(es))

\* a rendering that lists the entries in row-major order
format_canonical(t) ==
    "<SparseTensor shape=" \o ListStr(t.shape) \o " \n values={"
        \o PairLines(SortEntries(Entries(t))) \o "}>"

format(t) ==
    "<SparseTensor shape=" \o ListStr(t.shape) \o " \n values={"
        \o PairLines(Entries(t)) \o "}>"

(***************************************************************************)
(* A session: construct one or two tensors, then run one operation on      *)
(* them.  Tensors are immutable values; an operation only produces `res`.  *)
(***************************************************************************)
NbNames ==
    {"st1", "out5", "out6", "st2", "st3", "st_a", "st_b", "st_sum", "st_c", "mb", "product",
     "sparse_pattern_A", "sparse_pattern_B", "sparse_pattern_C", "sparse_pattern",
     "sparse_slice_A", "sparse_slice_B", "sparse_slice_C", "st2_plus_5", "out25"}

Init ==
    /\ a = None
    /\ b = None
    /\ op = "none"
    /\ arg = <<>>
    /\ res = None
    /\ nb = [n \in NbNames |-> None]

\* a = construct(...), then possibly b = construct(...)
Construct ==
    /\ op \in {"none", "construct"}
    /\ b = None
    /\ \E shape \in Shapes, n \in 0..MaxNnz :
         \E indices \in [1..n -> Coords], values \in [1..n -> Vals] :
            LET r == construct(shape, indices, values)
            IN /\ op' = "construct"
               /\ arg' = <<shape, indices, values>>
               /\ res' = r
               /\ IF a = None
                  THEN a' = (IF IsSparse(r) THEN r ELSE a) /\ b' = b
                  ELSE /\ n + Nnz(a) <= MaxNnz
                       /\ b' = (IF IsSparse(r) THEN r ELSE b) /\ a' = a
    /\ UNCHANGED nb

Ready1 == op = "construct" /\ a # None /\ b = None
Ready2 == op = "construct" /\ a # None /\ b # None

Canonicalize ==
    /\ Ready1
    /\ op' = "canonicalize" /\ arg' = <<>> /\ res' = canonicalize(a)
    /\ UNCHANGED <<a, b, nb>>

ToDense ==
    /\ Ready1
    /\ op' = "to_dense" /\ arg' = <<>> /\ res' = to_dense(a)
    /\ UNCHANGED <<a, b, nb>>

\* from_dense(to_dense(canonicalize(a)))
RoundTrip ==
    /\ Ready1
    /\ op' = "round_trip" /\ arg' = <<>>
    /\ res' = LET d == to_dense(canonicalize(a))
              IN IF IsErr(d) THEN d ELSE from_dense(d)
    /\ UNCHANGED <<a, b, nb>>

Slice ==
    /\ Ready1
    /\ \E start \in [1..Len(a.shape) -> Starts], size \in [1..Len(a.shape) -> Sizes] :
          /\ op' = "slice" /\ arg' = <<start, size>>
          /\ res' = slice(a, start, size)
    /\ UNCHANGED <<a, b, nb>>

Reduce ==
    /\ Ready1
    /\ \E axis \in 0..(Len(a.shape) - 1), o \in Ops :
          /\ op' = "reduce" /\ arg' = <<axis, o>>
          /\ res' = reduce(a, axis, o)
    /\ UNCHANGED <<a, b, nb>>

Add ==
    /\ Ready2
    /\ \E tau \in Taus :
          /\ op' = "add" /\ arg' = <<tau>>
          /\ res' = add(a, b, tau)
    /\ UNCHANGED <<a, b, nb>>

Concat ==
    /\ Ready2
    /\ \E axis \in 0..(Len(a.shape) - 1) :
          /\ op' = "concat" /\ arg' = <<axis>>
          /\ res' = concat(axis, <<a, b>>)
    /\ UNCHANGED <<a, b, nb>>

\* a map that writes the new values into its operand
MapValues_inplace ==
    /\ Ready1
    /\ \E name \in MapFns :
          /\ op' = "map_values" /\ arg' = <<name>>
          /\ res' = map_values(ElementFn(name), a)
          /\ a' = map_values(ElementFn(name), a)
    /\ UNCHANGED <<b, nb>>

MapValues ==
    /\ Ready1
    /\ \E name \in MapFns :
          /\ op' = "map_values" /\ arg' = <<name>>
          /\ res' = map_values(ElementFn(name), a)
    /\ UNCHANGED <<a, b, nb>>

\* the dense matrices a session multiplies by
DenseMats ==
    UNION {{Dense(shape, at) : at \in [Cells(shape) -> DVals]} : shape \in DenseShapes}

Matmul ==
    /\ Ready1
    /\ \E d \in DenseMats :
          /\ op' = "matmul" /\ arg' = <<d>>
          /\ res' = sparse_dense_matmul(a, d)
    /\ UNCHANGED <<a, b, nb>>

Format ==
    /\ Ready1
    /\ op' = "format" /\ arg' = <<>> /\ res' = Text(format(a))
    /\ UNCHANGED <<a, b, nb>>

\* slice input i back out of the concatenated tensor, and canonicalize
SliceBack ==
    /\ op = "concat" /\ IsSparse(res)
    /\ \E i \in 1..2 :
          LET axis == arg[1]
              inputs == <<a, b>>
              start == [k \in 1..Len(a.shape) |->
                           IF k = axis + 1 THEN Offset(axis, inputs, i - 1) ELSE 0]
              back == slice(res, start, inputs[i].shape)
          IN /\ op' = "slice_back" /\ arg' = <<axis, i>>
             /\ res' = IF IsErr(back) THEN back ELSE canonicalize(back)
    /\ UNCHANGED <<a, b, nb>>

Next ==
    \/ Construct
    \/ Canonicalize
    \/ ToDense
    \/ RoundTrip
    \/ Slice
    \/ Reduce
    \/ Add
    \/ Concat
    \/ SliceBack
    \/ MapValues
    \/ Matmul
    \/ Format

Spec == Init /\ [][Next]_vars

(***************************************************************************)
(* The notebook.  Each code cell is an action that assigns the cell's      *)
(* variables; a cell can run once the variables it reads are assigned, in  *)
(* any order the kernel is given.  outN is the value cell N displays.      *)
(***************************************************************************)
Has(n) == nb[n] # None

Ones(n) == [i \in 1..n |-> 1]

Cell2 ==
    /\ nb' = [nb EXCEPT !["st1"] = construct(<<3, 10>>, << <<0, 3>>, <<2, 4>> >>, <<10, 20>>)]
    /\ UNCHANGED <<a, b, op, arg, res>>

Cell5 ==
    /\ Has("st1")
    /\ nb' = [nb EXCEPT !["out5"] = Text(format(nb["st1"]))]
    /\ UNCHANGED <<a, b, op, arg, res>>

Cell6 ==
    /\ Has("st1")
    /\ nb' = [nb EXCEPT !["out6"] = to_dense(nb["st1"])]
    /\ UNCHANGED <<a, b, op, arg, res>>

Cell7 ==
    /\ nb' = [nb EXCEPT !["st2"] =
                from_dense(DenseOfRows(<< <<1, 0, 0, 8>>, <<0, 0, 0, 0>>, <<0, 0, 3, 0>> >>))]
    /\ UNCHANGED <<a, b, op, arg, res>>

Cell8 ==
    /\ Has("st2")
    /\ nb' = [nb EXCEPT !["st3"] = to_dense(nb["st2"])]
    /\ UNCHANGED <<a, b, op, arg, res>>

Cell9 ==
    /\ LET st_a == construct(<<4, 10>>, << <<0, 2>>, <<3, 4>> >>, <<31, 2>>)
           st_b == construct(<<4, 10>>, << <<0, 2>>, <<7, 0>> >>, <<56, 38>>)
       IN nb' = [nb EXCEPT !["st_a"] = st_a, !["st_b"] = st_b,
                           !["st_sum"] = IF IsSparse(st_a) /\ IsSparse(st_b)
                                         THEN add(st_a, st_b, 0)
                                         ELSE Err("NameError")]
    /\ UNCHANGED <<a, b, op, arg, res>>

Cell10 ==
    /\ LET st_c == construct(<<2, 2>>, << <<0, 1>>, <<1, 0>>, <<1, 1>> >>, <<13, 15, 17>>)
           mb == DenseOfRows(<< <<4>>, <<6>> >>)
       IN nb' = [nb EXCEPT !["st_c"] = st_c, !["mb"] = mb,
                           !["product"] = sparse_dense_matmul(st_c, mb)]
    /\ UNCHANGED <<a, b, op, arg, res>>

Cell11 ==
    /\ LET pA == construct(<<8, 5>>,
                     << <<2, 4>>, <<3, 3>>, <<3, 4>>, <<4, 3>>, <<4, 4>>, <<5, 4>> >>, Ones(6))
           pB == construct(<<8, 6>>,
                     << <<0, 2>>, <<1, 1>>, <<1, 3>>, <<2, 0>>, <<2, 4>>, <<2, 5>>, <<3, 5>>,
                        <<4, 5>>, <<5, 0>>, <<5, 4>>, <<5, 5>>, <<6, 1>>, <<6, 3>>, <<7, 2>> >>,
                     Ones(14))
           pC == construct(<<8, 6>>, << <<3, 0>>, <<4, 0>> >>, Ones(2))
       IN nb' = [nb EXCEPT !["sparse_pattern_A"] = pA, !["sparse_pattern_B"] = pB,
                           !["sparse_pattern_C"] = pC,
                           !["sparse_pattern"] = concat(1, <<pA, pB, pC>>)]
    /\ UNCHANGED <<a, b, op, arg, res>>

Cell12 ==
    /\ Has("sparse_pattern_A") /\ Has("sparse_pattern_B") /\ Has("sparse_pattern_C")
    /\ nb' = [nb EXCEPT
                !["sparse_slice_A"] = slice(nb["sparse_pattern_A"], <<0, 0>>, <<8, 5>>),
                !["sparse_slice_B"] = slice(nb["sparse_pattern_B"], <<0, 5>>, <<8, 6>>),
                !["sparse_slice_C"] = slice(nb["sparse_pattern_C"], <<0, 10>>, <<8, 6>>)]
    /\ UNCHANGED <<a, b, op, arg, res>>

Plus5 == [v \in Int |-> v + 5]

Cell17 ==
    /\ Has("st2")
    /\ nb' = [nb EXCEPT !["st2_plus_5"] = map_values(Plus5, nb["st2"])]
    /\ UNCHANGED <<a, b, op, arg, res>>

Cell25 ==
    /\ nb' = [nb EXCEPT !["out25"] = reduce(from_dense(DenseOfList(<<-5, 0, -3>>)), 0, "max")]
    /\ UNCHANGED <<a, b, op, arg, res>>

NextNotebook ==
    \/ Cell2
    \/ Cell5
    \/ Cell6
    \/ Cell7
    \/ Cell8
    \/ Cell9
    \/ Cell10
    \/ Cell11
    \/ Cell12
    \/ Cell17
    \/ Cell25

SpecNotebook == Init /\ [][NextNotebook]_vars

(***************************************************************************)
(* What the notebook's cells printed when it was run.                      *)
(***************************************************************************)
printed5 == Text("<SparseTensor shape=[3, 10] \n values={\n  [0, 3]: 10\n  [2, 4]: 20}>")

printed6 ==
    DenseOfRows(<<
        <<0, 0, 0, 10, 0, 0, 0, 0, 0, 0>>,
        <<0, 0, 0, 0, 0, 0, 0, 0, 0, 0>>,
        <<0, 0, 0, 0, 20, 0, 0, 0, 0, 0>> >>)

printed8 ==
    DenseOfRows(<<
        <<1, 0, 0, 8>>,
        <<0, 0, 0, 0>>,
        <<0, 0, 3, 0>> >>)

printed11 ==
    DenseOfRows(<<
        <<0, 0, 0, 0, 0, 0, 0, 1, 0, 0, 0, 0, 0, 0, 0, 0, 0>>,
        <<0, 0, 0, 0, 0, 0, 1, 0, 1, 0, 0, 0, 0, 0, 0, 0, 0>>,
        <<0, 0, 0, 0, 1, 1, 0, 0, 0, 1, 1, 0, 0, 0, 0, 0, 0>>,
        <<0, 0, 0, 1, 1, 0, 0, 0, 0, 0, 1, 1, 0, 0, 0, 0, 0>>,
        <<0, 0, 0, 1, 1, 0, 0, 0, 0, 0, 1, 1, 0, 0, 0, 0, 0>>,
        <<0, 0, 0, 0, 1, 1, 0, 0, 0, 1, 1, 0, 0, 0, 0, 0, 0>>,
        <<0, 0, 0, 0, 0, 0, 1, 0, 1, 0, 0, 0, 0, 0, 0, 0, 0>>,
        <<0, 0, 0, 0, 0, 0, 0, 1, 0, 0, 0, 0, 0, 0, 0, 0, 0>> >>)

printed12 ==
    DenseOfRows(<<
        <<0, 0, 0, 0, 0>>,
        <<0, 0, 0, 0, 0>>,
        <<0, 0, 0, 0, 1>>,
        <<0, 0, 0, 1, 1>>,
        <<0, 0, 0, 1, 1>>,
        <<0, 0, 0, 0, 1>>,
        <<0, 0, 0, 0, 0>>,
        <<0, 0, 0, 0, 0>> >>)

printed13 ==
    DenseOfRows(<<
        <<0>>,
        <<0>>,
        <<1>>,
        <<1>>,
        <<1>>,
        <<1>>,
        <<0>>,
        <<0>> >>)

printed17 ==
    DenseOfRows(<<
        <<6, 0, 0, 13>>,
        <<0, 0, 0, 0>>,
        <<0, 0, 8, 0>> >>)

printed10 ==
    DenseOfRows(<<
        <<78>>,
        <<162>> >>)

printed7 == Sparse(<<3, 4>>, << <<0, 0>>, <<0, 3>>, <<2, 2>> >>, <<1, 8, 3>>)

printed9 == Sparse(<<4, 10>>, << <<0, 2>>, <<3, 4>>, <<7, 0>> >>, <<87, 2, 38>>)

printed14 == Dense(<<8, 0>>, <<>>)

printed25 == Dense(<<>>, [c \in {<<>>} |-> -3])

\* the model's operations give the values the notebook shows
NotebookOutputs ==
    /\ Has("out5") => nb["out5"] = printed5
    /\ Has("out6") => nb["out6"] = printed6
    /\ Has("st2") => nb["st2"] = printed7
    /\ Has("st3") => nb["st3"] = printed8
    /\ Has("st_sum") => nb["st_sum"] = printed9
    /\ Has("product") => nb["product"] = printed10
    /\ Has("sparse_pattern") => to_dense(nb["sparse_pattern"]) = printed11
    /\ Has("sparse_slice_A") => to_dense(nb["sparse_slice_A"]) = printed12
    /\ Has("sparse_slice_B") => to_dense(nb["sparse_slice_B"]) = printed13
    /\ Has("sparse_slice_C") => to_dense(nb["sparse_slice_C"]) = printed14
    /\ Has("st2_plus_5") => to_dense(nb["st2_plus_5"]) = printed17
    /\ Has("out25") => nb["out25"] = printed25

(***************************************************************************)
(* Properties.  Those of the session are stated on the state an operation  *)
(* leaves: op names the operation, arg its arguments, a and b its          *)
(* operands, res its result.                                               *)
(***************************************************************************)
HasDuplicate(t) == \E i, j \in 1..Nnz(t) : i < j /\ t.indices[i] = t.indices[j]
NoZeroValue(t) == \A i \in 1..Nnz(t) : t.values[i] # 0

\* C1: canonicalize is idempotent, canonicalize(canonicalize(t)) = canonicalize(t),
\* and the indices of canonicalize(t) are strictly increasing in row-major
\* order, so that no coordinate appears twice.
C1_CanonicalizeIdempotent ==
    op = "canonicalize" =>
        /\ canonicalize(res) = res
        /\ \A i, j \in 1..Nnz(res) : i < j => LexLess(res.indices[i], res.indices[j])
        /\ ~HasDuplicate(res)

C1_Witness ==
    /\ op = "canonicalize"
    /\ HasDuplicate(a)
    /\ Nnz(res) < Nnz(a)

\* C2 as stated: for every SparseTensor t (coordinates within its shape) that
\* stores no zero value, from_dense(to_dense(canonicalize(t))) = canonicalize(t).
C2_RoundTripNoStoredZero ==
    (op = "round_trip" /\ AllInShape(a) /\ NoZeroValue(a)) => res = canonicalize(a)

\* C2 as amended: for every SparseTensor t (coordinates within its shape) whose
\* canonical form stores no zero value, that is, no coordinate of t has stored
\* values that sum to zero, from_dense(to_dense(canonicalize(t))) = canonicalize(t).
C2_RoundTripNoZeroSum ==
    (op = "round_trip" /\ AllInShape(a) /\ NoZeroValue(canonicalize(a)))
        => res = canonicalize(a)

C2_Witness ==
    /\ op = "round_trip"
    /\ AllInShape(a)
    /\ HasDuplicate(a)
    /\ NoZeroValue(canonicalize(a))
    /\ res = canonicalize(a)

\* C3: add is commutative: for a and b of one shape, canonical or not, and one
\* threshold, add(a, b) and add(b, a) are the same SparseTensor: same shape,
\* same entries in the same order, same values.
C3_AddCommutative ==
    (op = "add" /\ a.shape = b.shape) =>
        /\ IsSparse(res)
        /\ res = add(b, a, arg[1])

C3_Witness ==
    /\ op = "add"
    /\ a.shape = b.shape
    /\ a # b
    /\ \E i \in 1..Nnz(a), j \in 1..Nnz(b) :
          a.indices[i] = b.indices[j] /\ a.values[i] # b.values[j]
    /\ Nnz(res) > 0

\* C4: slicing input i back out of concat(axis, inputs), with start the
\* cumulative offset of input i on `axis` and size the shape of input i, then
\* canonicalizing, gives canonicalize(input i).
C4_SliceConcatInverse ==
    op = "slice_back" => res = canonicalize(<<a, b>>[arg[2]])

\* the same, for the inputs whose coordinates lie within their shapes
C4_SliceConcatInverseInShape ==
    (op = "slice_back" /\ AllInShape(a) /\ AllInShape(b))
        => res = canonicalize(<<a, b>>[arg[2]])

\* C5: the notebook's add example: st_a and st_b are both constructed, and
\* add(st_a, st_b) is the tensor of shape [4, 10] with exactly the entries
\* [0, 2]: 87, [3, 4]: 2, [7, 0]: 38.
C5_AddExample ==
    Has("st_sum") =>
        /\ nb["st_a"] = Sparse(<<4, 10>>, << <<0, 2>>, <<3, 4>> >>, <<31, 2>>)
        /\ nb["st_b"] = Sparse(<<4, 10>>, << <<0, 2>>, <<7, 0>> >>, <<56, 38>>)
        /\ nb["st_sum"] = Sparse(<<4, 10>>, << <<0, 2>>, <<3, 4>>, <<7, 0>> >>, <<87, 2, 38>>)

C5_Witness == Has("st_a") /\ Has("st_b") /\ Has("st_sum")

\* C6: construct fails with IndexOutOfBoundsError whenever a coordinate
\* component is outside [0, shape[axis]), so that every constructed
\* SparseTensor has all its coordinates within its shape.
C6_ConstructChecksBounds ==
    op = "construct" =>
        /\ (\E i \in 1..Len(arg[2]) : ~InShape(arg[2][i], arg[1]))
              => res = Err("IndexOutOfBoundsError")
        /\ IsSparse(res) => AllInShape(res)

NegativeWindow(start, size) == \E k \in 1..Len(start) : start[k] < 0 \/ size[k] < 0
BeyondShape(t, start, size) == \E k \in 1..Len(start) : start[k] + size[k] > t.shape[k]
SliceErrors == {"AxisOutOfRangeError", "IndexOutOfBoundsError"}

KeptBy(t, start, size) ==
    {j \in 1..Nnz(t) :
        \A k \in 1..Len(start) :
            start[k] <= t.indices[j][k] /\ t.indices[j][k] < start[k] + size[k]}

\* r holds one entry (c - start, v) for each entry (c, v) of t in the window,
\* and no other entry
HoldsWindow(r, t, start, size) ==
    /\ Nnz(r) = Cardinality(KeptBy(t, start, size))
    /\ \A i \in 1..Nnz(r) :
          Cardinality({i2 \in 1..Nnz(r) :
                          r.indices[i2] = r.indices[i] /\ r.values[i2] = r.values[i]})
            = Cardinality({j \in KeptBy(t, start, size) :
                             /\ t.values[j] = r.values[i]
                             /\ \A k \in 1..Len(start) :
                                   t.indices[j][k] - start[k] = r.indices[i][k]})

EmptyWindow(size) == \E k \in 1..Len(size) : size[k] = 0

RegionOf(t, axis, r) == {i \in 1..Nnz(t) : RemoveAt(t.indices[i], axis) = r}

RECURSIVE SumAt(_, _)
SumAt(t, S) ==
    IF S = {} THEN 0
    ELSE LET i == CHOOSE j \in S : TRUE IN t.values[i] + SumAt(t, S \ {i})

\* C9: reduce combines only the stored entries of each region: a max is one of
\* the region's stored values and no stored value of the region exceeds it (so
\* it is negative, never 0, when they all are), a sum is the sum of the stored
\* values; reduce_max of from_dense([-5, 0, -3]) is -3.
C9_ReduceExplicitOnly ==
    /\ (op = "reduce" /\ IsDense(res)) =>
          \A r \in DOMAIN res.at :
              /\ arg[2] = "max" =>
                    /\ \E i \in RegionOf(a, arg[1], r) : a.values[i] = res.at[r]
                    /\ \A i \in RegionOf(a, arg[1], r) : a.values[i] <= res.at[r]
              /\ arg[2] = "sum" => res.at[r] = SumAt(a, RegionOf(a, arg[1], r))
    /\ reduce(from_dense(DenseOfList(<<-5, 0, -3>>)), 0, "max")
          = Dense(<<>>, [r \in {<<>>} |-> -3])

\* a max below 0 over a region that has a coordinate with no stored entry
C9_Witness ==
    /\ op = "reduce"
    /\ arg[2] = "max"
    /\ IsDense(res)
    /\ \E r \in DOMAIN res.at :
          /\ res.at[r] < 0
          /\ \E c \in Cells(a.shape) :
                /\ RemoveAt(c, arg[1]) = r
                /\ \A i \in 1..Nnz(a) : a.indices[i] # c

\* C10: reduce fails with EmptyReductionError whenever some reduced region
\* holds no stored entry, the tensor with no entry at all included; no value
\* is made up for the region.
C10_EmptyReductionFails ==
    (op = "reduce" /\ \E r \in Cells(RemoveAt(a.shape, arg[1])) : RegionOf(a, arg[1], r) = {})
        => res = Err("EmptyReductionError")

C10_Witness ==
    /\ op = "reduce"
    /\ AllInShape(a)
    /\ Nnz(a) > 0
    /\ \E r \in Cells(RemoveAt(a.shape, arg[1])) : RegionOf(a, arg[1], r) # {}
    /\ res = Err("EmptyReductionError")

\* the cells of t's shape at which t stores no entry
MissingCells(t) == {c \in Cells(t.shape) : \A i \in 1..Nnz(t) : t.indices[i] # c}

\* C11: map_values keeps the shape, the indices in their order and the number
\* of entries, its i-th value is f applied to the i-th value of t, and no
\* entry appears at a coordinate missing from t, even when f(0) # 0: the
\* dense view of the result is 0 at every missing position.
C11_MapValuesFrame ==
    op = "map_values" =>
        /\ IsSparse(res)
        /\ res.shape = a.shape
        /\ res.indices = a.indices
        /\ Len(res.values) = Len(a.values)
        /\ \A i \in 1..Len(a.values) :
              res.values[i] = (CASE arg[1] = "plus5" -> a.values[i] + 5
                                 [] arg[1] = "negate" -> 0 - a.values[i]
                                 [] arg[1] = "square" -> a.values[i] * a.values[i])
        /\ IsDense(to_dense(res)) =>
              \A c \in MissingCells(a) : to_dense(res).at[c] = 0

C11_Witness ==
    /\ op = "map_values"
    /\ arg[1] = "plus5"
    /\ AllInShape(a)
    /\ Nnz(a) > 0
    /\ MissingCells(a) # {}
    /\ IsDense(to_dense(res))

\* the sum of v * d[j][col] over the stored entries of t at the positions S
RECURSIVE SumProdAt(_, _, _, _)
SumProdAt(t, S, d, col) ==
    IF S = {} THEN 0
    ELSE LET n == CHOOSE x \in S : TRUE
         IN t.values[n] * d.at[<<t.indices[n][2], col>>] + SumProdAt(t, S \ {n}, d, col)

\* the same entries, stored in the order f gives
EntryOrders(n) == {f \in [1..n -> 1..n] : \A x, y \in 1..n : f[x] = f[y] => x = y}
Reordered(t, f) ==
    Sparse(t.shape, [n \in 1..Nnz(t) |-> t.indices[f[n]]], [n \in 1..Nnz(t) |-> t.values[f[n]]])

\* res is the m x p matrix of the sums of products over the stored entries
IsProduct(s, d) ==
    /\ IsDense(res)
    /\ res.shape = <<s.shape[1], d.shape[2]>>
    /\ \A c \in Cells(<<s.shape[1], d.shape[2]>>) :
          res.at[c] = SumProdAt(s, {n \in 1..Nnz(s) : s.indices[n][1] = c[1]}, d, c[2])
    /\ \A f \in EntryOrders(Nnz(s)) : sparse_dense_matmul(Reordered(s, f), d) = res

\* C12: for s of shape [m, k] and dense d of shape [k, p],
\* sparse_dense_matmul(s, d) is the m x p matrix whose element [i][c] is the
\* sum over all stored entries (i, j, v) of s, duplicates each counted, of
\* v * d[j][c], a row with no stored entry being zero; it does not depend on
\* the order in which s stores its entries; for s = {[0,1]:13, [1,0]:15,
\* [1,1]:17} and d = [[4],[6]] it is [[78],[162]].
C12_MatmulSumsEntries ==
    /\ (op = "matmul" /\ a.shape[2] = arg[1].shape[1]) => IsProduct(a, arg[1])
    /\ sparse_dense_matmul(
           construct(<<2, 2>>, << <<0, 1>>, <<1, 0>>, <<1, 1>> >>, <<13, 15, 17>>),
           DenseOfRows(<< <<4>>, <<6>> >>))
         = DenseOfRows(<< <<78>>, <<162>> >>)

\* the same, for the tensors whose coordinates lie within their shape
C12_MatmulSumsEntriesInShape ==
    (op = "matmul" /\ a.shape[2] = arg[1].shape[1] /\ AllInShape(a)) => IsProduct(a, arg[1])

\* res is the array of t's shape that holds at each cell the sum of the values
\* t stores there, whatever the order of t's entries
IsDenseView(t) ==
    /\ IsDense(res)
    /\ res.shape = t.shape
    /\ DOMAIN res.at = Cells(t.shape)
    /\ \A c \in Cells(t.shape) :
          res.at[c] = SumAt(t, {n \in 1..Nnz(t) : t.indices[n] = c})
    /\ \A f \in EntryOrders(Nnz(t)) : to_dense(Reordered(t, f)) = res
    /\ to_dense(canonicalize(t)) = res

\* C13: to_dense is total and order-independent: for every constructed t it
\* returns an array of t's shape whose element at c is the sum of the values t
\* stores at c, 0 when c is not stored; tensors that differ only in the order
\* of their entries have the same dense result, and
\* to_dense(t) = to_dense(canonicalize(t)); st1 gives the 3 x 10 array that is
\* zero but for [0,3] = 10 and [2,4] = 20.
C13_ToDenseTotal ==
    /\ op = "to_dense" => IsDenseView(a)
    /\ to_dense(construct(<<3, 10>>, << <<0, 3>>, <<2, 4>> >>, <<10, 20>>))
         = Dense(<<3, 10>>, [c \in Cells(<<3, 10>>) |->
                                IF c = <<0, 3>> THEN 10 ELSE IF c = <<2, 4>> THEN 20 ELSE 0])

\* the same, for the tensors whose coordinates lie within their shape
C13_ToDenseTotalInShape ==
    (op = "to_dense" /\ AllInShape(a)) => IsDenseView(a)

\* C14: for every accepted concat(axis, inputs) the output shape is the
\* inputs' common shape with dimension `axis` replaced by the sum of the
\* inputs' sizes on that axis, and the output entries are the entries of
\* input 1, then those of input 2, in the caller's list order, each with its
\* `axis` component increased by the sizes on `axis` of the inputs before it,
\* values and other components unchanged: nothing is sorted or merged.
C14_ConcatListOrder ==
    (op = "concat" /\ IsSparse(res)) =>
        LET k == arg[1] + 1
        IN /\ \A x \in 1..Len(a.shape) : x # k => a.shape[x] = b.shape[x]
           /\ res.shape = [x \in 1..Len(a.shape) |->
                              IF x = k THEN a.shape[x] + b.shape[x] ELSE a.shape[x]]
           /\ Nnz(res) = Nnz(a) + Nnz(b)
           /\ \A i \in 1..Nnz(a) :
                 res.indices[i] = a.indices[i] /\ res.values[i] = a.values[i]
           /\ \A i \in 1..Nnz(b) :
                 /\ res.values[Nnz(a) + i] = b.values[i]
                 /\ res.indices[Nnz(a) + i] =
                       [x \in 1..Len(b.shape) |->
                           IF x = k THEN b.indices[i][x] + a.shape[k] ELSE b.indices[i][x]]

\* both inputs hold an entry and the output is not in row-major order
C14_Witness ==
    /\ op = "concat"
    /\ IsSparse(res)
    /\ AllInShape(a) /\ AllInShape(b)
    /\ Nnz(a) > 0 /\ Nnz(b) > 0
    /\ a.shape # b.shape
    /\ ~IsCanonical(res)

\* the coordinates t stores, and the positions at which it stores c
StoredCoords(t) == {t.indices[n] : n \in 1..Nnz(t)}
StoredAt(t, c) == {n \in 1..Nnz(t) : t.indices[n] = c}

\* C15: canonicalize merges by summation: the result has t's shape, its
\* coordinates are the distinct coordinates t stores, each once, and the value
\* at each is the sum of the values t stores there; a coordinate whose
\* duplicates sum to zero is kept, with the value 0.
C15_CanonicalizeSums ==
    op = "canonicalize" =>
        /\ IsSparse(res)
        /\ res.shape = a.shape
        /\ StoredCoords(res) = StoredCoords(a)
        /\ Nnz(res) = Cardinality(StoredCoords(a))
        /\ \A i \in 1..Nnz(res) :
              res.values[i] = SumAt(a, StoredAt(a, res.indices[i]))

\* a coordinate stored twice with values that cancel, kept with the value 0
C15_Witness ==
    /\ op = "canonicalize"
    /\ \E c \in StoredCoords(a) :
          /\ Cardinality(StoredAt(a, c)) > 1
          /\ \A n \in StoredAt(a, c) : a.values[n] # 0
          /\ \E i \in 1..Nnz(res) : res.indices[i] = c /\ res.values[i] = 0

\* the text that opens with `head` and then lists the first n entries of t,
\* in their stored order, one "coordinate: value" pair per line
RECURSIVE ListedUpTo(_, _, _)
ListedUpTo(head, t, n) ==
    IF n = 0 THEN head
    ELSE ListedUpTo(head, t, n - 1)
            \o "\n  " \o ListStr(t.indices[n]) \o ": " \o IntStr(t.values[n])

st1 == construct(<<3, 10>>, << <<0, 3>>, <<2, 4>> >>, <<10, 20>>)

\* C16 as stated: format renders the shape, then one coordinate/value pair per
\* stored entry in the stored order (unsorted, duplicates and explicit zeros
\* each shown); for st1 the output is the literal block of section 6,
\* character for character, whose first line is "<SparseTensor shape=[3, 10]";
\* a tensor with no entry renders an empty value list.
C16_FormatLiteralBlock ==
    op = "format" =>
        /\ res.text = ListedUpTo("<SparseTensor shape=" \o ListStr(a.shape) \o "\n values={",
                                 a, Nnz(a)) \o "}>"
        /\ format(st1) = "<SparseTensor shape=[3, 10]\n values={\n  [0, 3]: 10\n  [2, 4]: 20}>"
        /\ Nnz(a) = 0 => res.text = "<SparseTensor shape=" \o ListStr(a.shape) \o "\n values={}>"

\* C16 as amended: the same, with the space the code writes between the shape
\* and the line break: the first line of the output for st1 is
\* "<SparseTensor shape=[3, 10] ", the rest is the block of section 6.
C16_FormatTrailingSpace ==
    op = "format" =>
        /\ res.text = ListedUpTo("<SparseTensor shape=" \o ListStr(a.shape) \o " \n values={",
                                 a, Nnz(a)) \o "}>"
        /\ format(st1) = "<SparseTensor shape=[3, 10] \n values={\n  [0, 3]: 10\n  [2, 4]: 20}>"
        /\ Nnz(a) = 0 => res.text = "<SparseTensor shape=" \o ListStr(a.shape) \o " \n values={}>"

\* entries out of row-major order, one of them an explicit zero
C16_Witness ==
    /\ op = "format"
    /\ Nnz(a) > 1
    /\ LexLess(a.indices[2], a.indices[1])
    /\ \E n \in 1..Nnz(a) : a.values[n] = 0

\* the operations of the engine, as a session names them
Operations ==
    {"canonicalize", "to_dense", "round_trip", "map_values", "add", "matmul", "concat",
     "slice", "slice_back", "reduce", "format"}

\* C17: whatever operation runs, and whether it returns a value or an error,
\* every tensor that existed before the call has the same shape, indices and
\* values after it: no operation changes an operand, and a failing call
\* changes nothing.
C17_OperandsUnchanged ==
    [][/\ a # None => a' = a
       /\ b # None => b' = b]_vars

\* an operation has failed on a tensor that holds entries
C17_Witness ==
    /\ op \in Operations
    /\ IsErr(res)
    /\ IsSparse(a)
    /\ Nnz(a) > 0

\* the value of the sum of x and y at the coordinate c
SumValue(x, y, c) == SumAt(x, StoredAt(x, c)) + SumAt(y, StoredAt(y, c))

\* C18: for every threshold tau >= 0 no entry of add(a, b, tau) has a magnitude
\* <= tau, and every coordinate of the union whose resulting value has a
\* magnitude > tau is present with that value; with the default tau = 0 the
\* output holds no explicit zero, both when two values cancel and when one
\* input stores an explicit zero.
C18_AddThreshold ==
    (op = "add" /\ IsSparse(res)) =>
        /\ \A i \in 1..Nnz(res) : Abs(res.values[i]) > arg[1]
        /\ \A c \in StoredCoords(a) \cup StoredCoords(b) :
              Abs(SumValue(a, b, c)) > arg[1]
                  => \E i \in 1..Nnz(res) :
                        res.indices[i] = c /\ res.values[i] = SumValue(a, b, c)
        /\ arg[1] = 0 => \A i \in 1..Nnz(res) : res.values[i] # 0

\* with tau = 0, a coordinate whose values cancel, or that holds an explicit
\* zero in one input only, is not in the output
C18_Witness ==
    /\ op = "add"
    /\ arg[1] = 0
    /\ IsSparse(res)
    /\ \E c \in StoredCoords(a) \cup StoredCoords(b) :
          /\ SumValue(a, b, c) = 0
          /\ c \notin StoredCoords(res)
          /\ \/ \E i \in StoredAt(a, c), j \in StoredAt(b, c) :
                   a.values[i] # 0 /\ b.values[j] # 0
             \/ StoredAt(b, c) = {}

\* res is canonical and its dense view is the elementwise sum of the dense
\* views of x and y
IsDenseSum(x, y) ==
    /\ IsSparse(res)
    /\ IsCanonical(res)
    /\ IsDense(to_dense(x)) /\ IsDense(to_dense(y)) /\ IsDense(to_dense(res))
    /\ to_dense(res).shape = x.shape
    /\ \A c \in Cells(x.shape) :
          to_dense(res).at[c] = to_dense(x).at[c] + to_dense(y).at[c]

\* C19: with the default tau = 0, for all a and b of one shape, canonical or
\* not, add(a, b) has strictly increasing row-major indices and its dense view
\* is the elementwise sum of the dense views of a and b; add of tensors of
\* different shapes fails with ShapeMismatchError and returns no tensor.
C19_AddIsDenseAddition ==
    (op = "add" /\ arg[1] = 0) =>
        IF a.shape = b.shape THEN IsDenseSum(a, b) ELSE res = Err("ShapeMismatchError")

\* the same, for the tensors whose coordinates lie within their shape
C19_AddIsDenseAdditionInShape ==
    (op = "add" /\ arg[1] = 0 /\ AllInShape(a) /\ AllInShape(b)) =>
        IF a.shape = b.shape THEN IsDenseSum(a, b) ELSE res = Err("ShapeMismatchError")

====
